---- MODULE Spec2Model ----
(***************************************************************************)
(* One run of sp500_analysis_app.py, the Streamlit script that loads the   *)
(* constituents of an index, downloads their daily bars over a padded      *)
(* window, sums the daily percentage changes per ticker and renders the    *)
(* Top Movers, Group Performance and Ticker Inspector tabs.                *)
(*                                                                         *)
(* Representation.                                                         *)
(*   - A date is an integer (a day number).                                *)
(*   - A text is a sequence of one-character strings, so that slicing,     *)
(*     strip(), isdigit() and startswith() are computed, not assumed.      *)
(*   - A pandas cell that may be NaN/None is None (<<>>) or Some(v).       *)
(*   - A float is an exact rational <<n, d>> in lowest terms with d > 0:   *)
(*     the model is the real-number reading of the float arithmetic.       *)
(*   - A dict is a sequence of records in insertion order.                 *)
(*   - The Security/Company column is carried through the script without   *)
(*     being read by any computation and is left out of the rows.          *)
(***************************************************************************)
EXTENDS Integers, Sequences, FiniteSets, TLC

\* ------------------------------------------------------------------ bounds

\* "today": the last day the date pickers allow; days 1..MaxDay are selectable.
MaxDay == 3
\* Closing prices are drawn from 1..MaxPrice.
MaxPrice == 4
\* Rows of a history drawn over the long calendar (the one that reaches
\* back past the download padding).
MaxSparseRows == 2
\* Rows of a constituent table.
MaxMetaRows == 3
\* Characters of a raw CSI ticker cell.
MaxRawLen == 7

\* ------------------------------------------------------- program constants

\* timedelta(days=5) before start_date
PadBefore == 5
\* timedelta(days=1) after end_date
PadAfter == 1
\* ticker[:6]
TickerLen == 6
\* .head(10)
TopN == 10
\* .round(2)
Decimals == 2

\* ---------------------------------------------------------- optional cells

None == <<>>
Some(x) == <<x>>
Val(o) == o[1]

\* ------------------------------------------------------------- arithmetic

Abs(n) == IF n < 0 THEN -n ELSE n

RECURSIVE GCD(_, _)
GCD(a, b) == IF b = 0 THEN a ELSE GCD(b, a % b)

\* The rational n/d (d > 0) in lowest terms.
Frac(n, d) ==
    LET g == GCD(Abs(n), d)
    IN  <<n \div g, d \div g>>

Zero == Frac(0, 1)
RAdd(a, b) == Frac(a[1] * b[2] + b[1] * a[2], a[2] * b[2])
RSub(a, b) == Frac(a[1] * b[2] - b[1] * a[2], a[2] * b[2])
RLess(a, b) == a[1] * b[2] < b[1] * a[2]
RLeq(a, b) == a[1] * b[2] <= b[1] * a[2]
RDivInt(a, k) == Frac(a[1], a[2] * k)

RECURSIVE Pow10(_)
Pow10(k) == IF k = 0 THEN 1 ELSE 10 * Pow10(k - 1)

\* numpy's around: scale, round half to even, unscale.
Round(a, decimals) ==
    LET m == Pow10(decimals)
        x == a[1] * m
        q == x \div a[2]
        r == x - q * a[2]
        h == IF 2 * r < a[2] THEN q
             ELSE IF 2 * r > a[2] THEN q + 1
             ELSE IF q % 2 = 0 THEN q ELSE q + 1
    IN  Frac(h, m)

\* Series.sum(): 0 for an empty series.
RECURSIVE RSum(_)
RSum(s) == IF s = <<>> THEN Zero ELSE RAdd(Head(s), RSum(Tail(s)))

\* Series.mean(): NaN for an empty series.
RMean(s) == IF s = <<>> THEN None ELSE Some(RDivInt(RSum(s), Len(s)))

\* Series.cumsum()
CumSum(s) == [i \in 1..Len(s) |-> RSum(SubSeq(s, 1, i))]

\* ------------------------------------------------------------- sequences

RECURSIVE Unique(_)
\* Series.unique(): the values in order of first appearance.
Unique(s) ==
    IF s = <<>> THEN <<>>
    ELSE LET init == Unique(SubSeq(s, 1, Len(s) - 1))
             last == s[Len(s)]
         IN  IF \E i \in 1..Len(init) : init[i] = last THEN init
             ELSE Append(init, last)

Range(s) == {s[i] : i \in 1..Len(s)}

RECURSIVE Ascending(_)
\* The elements of a finite set of integers in increasing order.
Ascending(S) ==
    IF S = {} THEN <<>>
    ELSE LET m == CHOOSE x \in S : \A y \in S : x <= y
         IN  <<m>> \o Ascending(S \ {m})

\* df.head(n)
Head_n(df, n) == SubSeq(df, 1, IF Len(df) < n THEN Len(df) ELSE n)

\* ------------------------------------------------------------------ text

Digits == {"0", "1", "2", "3", "4", "5", "6", "7", "8", "9"}
Whitespace == {" "}

RECURSIVE lstrip(_)
lstrip(s) == IF s # <<>> /\ Head(s) \in Whitespace THEN lstrip(Tail(s)) ELSE s

RECURSIVE rstrip(_)
rstrip(s) ==
    IF s # <<>> /\ s[Len(s)] \in Whitespace
    THEN rstrip(SubSeq(s, 1, Len(s) - 1))
    ELSE s

\* str.strip()
strip(s) == rstrip(lstrip(s))

\* str.isdigit(): False for the empty string.
isdigit(s) == s # <<>> /\ \A i \in 1..Len(s) : s[i] \in Digits

\* s[:n]: the whole of s when it is shorter than n.
Slice(s, n) == SubSeq(s, 1, IF Len(s) < n THEN Len(s) ELSE n)

\* str.startswith(c) for a one-character c
startswith(s, c) == s # <<>> /\ s[1] = c

\* str(raw): an empty (NaN) spreadsheet cell reads "nan".
str(raw) == IF raw = None THEN <<"n", "a", "n">> ELSE Val(raw)

\* ------------------------------------------------------- metadata loaders

\* table[0][['Symbol', 'Security', 'GICS Sector', 'GICS Sub-Industry']]
get_sp500_metadata(html) ==
    [i \in 1..Len(html) |->
        [Symbol |-> html[i].Symbol, Sector |-> html[i].Sector, SubInd |-> html[i].SubInd]]

clean_ticker(raw) ==
    LET ticker == strip(str(raw))
    IN  IF isdigit(Slice(ticker, TickerLen)) THEN Some(Slice(ticker, TickerLen)) ELSE None

fix_ticker(ticker) ==
    IF startswith(ticker, "6") THEN Some(ticker \o <<".", "S", "S">>)
    ELSE IF startswith(ticker, "0") \/ startswith(ticker, "3")
         THEN Some(ticker \o <<".", "S", "Z">>)
         ELSE None

load_csi300_metadata(xlsx) ==
    LET Cleaned(r) == [Ticker |-> r.Ticker, Sector |-> r.Sector, SubInd |-> r.SubInd,
                       Cleaned |-> clean_ticker(r.Ticker)]
        HasCleaned(r) == r.Cleaned # None
        df1 == SelectSeq([i \in 1..Len(xlsx) |-> Cleaned(xlsx[i])], HasCleaned)
        Fixed(r) == [Symbol |-> fix_ticker(Val(r.Cleaned)), Sector |-> r.Sector,
                     SubInd |-> r.SubInd]
        HasSymbol(r) == r.Symbol # None
    IN  SelectSeq([i \in 1..Len(df1) |-> Fixed(df1[i])], HasSymbol)

\* metadata = get_sp500_metadata() if index_choice == "S&P 500" else load_csi300_metadata()
LoadedMetadata(choice, src) ==
    IF choice = "S&P 500" THEN get_sp500_metadata(src) ELSE load_csi300_metadata(src)

\* metadata['Symbol'].dropna().unique().tolist()
TickerList(md) ==
    LET NotNa(o) == o # None
        symbols == Unique(SelectSeq([i \in 1..Len(md) |-> md[i].Symbol], NotNa))
    IN  [i \in 1..Len(symbols) |-> Val(symbols[i])]

\* ----------------------------------------------------------- price download

\* A pad one day shorter than the script's, to try C8 against.
StartBufferShort(start) == start - (PadBefore - 1)

\* start_buffer = start - pd.Timedelta(days=5)
StartBuffer(start) == start - PadBefore
\* end_buffer = end + pd.Timedelta(days=1)
EndBuffer(end) == end + PadAfter

\* yf.download(tickers, start=, end=, group_by="ticker"): per ticker, the bars
\* dated start <= d < end; a ticker the provider gives no column for has no
\* entry to index (data[ticker] raises).
Download(mkt, tks, start, end) ==
    LET InRange(r) == start <= r.date /\ r.date < end
    IN  [t \in Range(tks) |->
            [ok |-> mkt[t].ok, rows |-> SelectSeq(mkt[t].rows, InRange)]]

RECURSIVE LastValid(_, _)
\* The last non-NaN close at or before row i (pct_change pads forward).
LastValid(rows, i) ==
    IF i = 0 THEN None
    ELSE IF rows[i].Close # None THEN rows[i].Close
         ELSE LastValid(rows, i - 1)

\* df['Close'].pct_change() * 100 at row i
PctChange(rows, i) ==
    LET cur == LastValid(rows, i)
        prev == LastValid(rows, i - 1)
    IN  IF cur = None \/ prev = None THEN None
        ELSE Some(Frac(100 * (Val(cur) - Val(prev)), Val(prev)))

\* df.index.date >= start_date and df.index.date <= end_date
InWindow(d, start, end) == start <= d /\ d <= end

\* The body of the try block for one ticker: lines 54-58.
TickerFrame(rows, start, end) ==
    LET WithChange(i) == [date |-> rows[i].date, Close |-> rows[i].Close,
                          Volume |-> rows[i].Volume, Chg |-> PctChange(rows, i)]
        df == [i \in 1..Len(rows) |-> WithChange(i)]
        Complete(r) == r.Close # None /\ r.Volume # None /\ r.Chg # None
        Kept(r) == InWindow(r.date, start, end)
        Plain(r) == [date |-> r.date, Close |-> Val(r.Close), Volume |-> Val(r.Volume),
                     Chg |-> Val(r.Chg)]
        kept == SelectSeq(SelectSeq(df, Complete), Kept)
    IN  [i \in 1..Len(kept) |-> Plain(kept[i])]

RECURSIVE PriceLoop(_, _, _, _)
\* for ticker in tickers: try ... except Exception: continue
PriceLoop(dl, tks, start, end) ==
    IF tks = <<>> THEN <<>>
    ELSE LET t == Head(tks)
             rest == PriceLoop(dl, Tail(tks), start, end)
         IN  IF dl[t].ok
             THEN <<[ticker |-> t, df |-> TickerFrame(dl[t].rows, start, end)]>> \o rest
             ELSE rest

\* --------------------------------------------------------------- helpers

\* The compounded return over the rows of df, 100 * (last close / first
\* close - 1), to try C4 against.
PerfCompounded(df) ==
    IF df = <<>> THEN Zero
    ELSE Frac(100 * (df[Len(df)].Close - df[1].Close), df[1].Close)

\* df['Daily % Change'].sum()
PerfOf(df) == RSum([i \in 1..Len(df) |-> df[i].Chg])

\* df['Volume'].mean()
AvgVolumeOf(df) == RMean([i \in 1..Len(df) |-> Frac(df[i].Volume, 1)])

\* compute_performance: the two dicts, as one sequence of items.
compute_performance(pd) ==
    [i \in 1..Len(pd) |->
        [Ticker |-> pd[i].ticker, Return |-> PerfOf(pd[i].df),
         AvgVolume |-> AvgVolumeOf(pd[i].df)]]

\* max(df.index.max() for df in price_data.values()): Python's max keeps its
\* running value unless the next one compares greater, and nothing compares
\* greater than NaT (the index maximum of an empty frame).
RECURSIVE PyMax(_, _)
PyMax(cur, s) ==
    IF s = <<>> THEN cur
    ELSE IF cur # None /\ Head(s) # None /\ Val(Head(s)) > Val(cur)
         THEN PyMax(Head(s), Tail(s))
         ELSE PyMax(cur, Tail(s))

LatestDate(pd) ==
    LET IndexMax(e) == IF e.df = <<>> THEN None ELSE Some(e.df[Len(e.df)].date)
        maxima == [i \in 1..Len(pd) |-> IndexMax(pd[i])]
    IN  PyMax(Head(maxima), Tail(maxima))

\* --------------------------------------------------------------- display

RECURSIVE Merge(_, _)
\* df.merge(metadata, left_on='Ticker', right_on='Symbol', how='left'): one
\* row per matching metadata row, in the order of the left frame; a left row
\* without a match keeps NaN in the metadata columns.
Merge(items, md) ==
    IF items = <<>> THEN <<>>
    ELSE LET it == Head(items)
             Match(r) == r.Symbol = Some(it.Ticker)
             hits == SelectSeq(md, Match)
             Joined(sector, subind) ==
                 [Ticker |-> it.Ticker, Return |-> it.Return, AvgVolume |-> it.AvgVolume,
                  Sector |-> sector, SubInd |-> subind]
             rows == IF hits = <<>> THEN <<Joined(None, None)>>
                     ELSE [i \in 1..Len(hits) |->
                              Joined(Some(hits[i].Sector), Some(hits[i].SubInd))]
         IN  rows \o Merge(Tail(items), md)

\* df.sort_values(by='Return', ascending=ascending) with the default
\* kind='quicksort', which is not a stable sort: the result is some
\* arrangement of the rows in the order of Return, and the place of rows with
\* equal Return is not determined. The set of the possible results.
SortValues(df, ascending) ==
    LET n == Len(df)
        InOrder(s) ==
            \A i \in 1..(n - 1) :
                IF ascending THEN RLeq(s[i].Return, s[i + 1].Return)
                ELSE RLeq(s[i + 1].Return, s[i].Return)
    IN  {s \in {[i \in 1..n |-> df[p[i]]] : p \in Permutations(1..n)} : InOrder(s)}

\* display_top_movers: the tables st.dataframe may be handed.
display_top_movers(items, md, ascending) ==
    LET Shown(r) == [Ticker |-> r.Ticker, Return |-> r.Return, AvgVolume |-> r.AvgVolume]
        merged == Merge(items, md)
        df == [i \in 1..Len(merged) |-> Shown(merged[i])]
    IN  {Head_n(s, TopN) : s \in SortValues(df, ascending)}

RECURSIVE AnyOrder(_)
\* The elements of a finite set as a sequence.
AnyOrder(S) ==
    IF S = {} THEN <<>>
    ELSE LET x == CHOOSE y \in S : TRUE
         IN  <<x>> \o AnyOrder(S \ {x})

\* df.groupby(group_col).agg({'Return': 'mean', 'Avg Volume': 'mean'}): one
\* row per group value (NaN keys are left out); the mean skips NaN.
GroupMeans(df, group_col) ==
    LET keys == {Val(df[i][group_col]) : i \in {j \in 1..Len(df) : df[j][group_col] # None}}
        Members(g) == SelectSeq(df, LAMBDA r : r[group_col] = Some(g))
        Volumes(m) == SelectSeq([i \in 1..Len(m) |-> m[i].AvgVolume], LAMBDA o : o # None)
        Agg(g) ==
            LET m == Members(g)
                v == Volumes(m)
            IN  [Group |-> g,
                 Return |-> Val(RMean([i \in 1..Len(m) |-> m[i].Return])),
                 AvgVolume |-> RMean([i \in 1..Len(v) |-> Val(v[i])])]
        order == AnyOrder(keys)
    IN  [i \in 1..Len(order) |-> Agg(order[i])]

\* display_group_performance: the tables st.dataframe may be handed.
display_group_performance(items, md, group_col) ==
    LET Rounded(r) ==
            [Group |-> r.Group, AvgReturn |-> Round(r.Return, Decimals),
             AvgVolume |-> IF r.AvgVolume = None THEN None
                           ELSE Some(Round(Val(r.AvgVolume), Decimals))]
        sorted == SortValues(GroupMeans(Merge(items, md), group_col), FALSE)
    IN  {[i \in 1..Len(s) |-> Rounded(s[i])] : s \in sorted}

\* Tab 3, lines 154-156: the frame rounded to two decimals, the running sum
\* of its rounded daily changes, and their total.
Inspect(df) ==
    LET rounded == [i \in 1..Len(df) |->
                       [date |-> df[i].date, Close |-> df[i].Close, Volume |-> df[i].Volume,
                        Chg |-> Round(df[i].Chg, Decimals)]]
        chg == [i \in 1..Len(rounded) |-> rounded[i].Chg]
    IN  [Cumulative |-> CumSum(chg), total_return |-> RSum(chg)]

\* ----------------------------------------------------------------- state

VARIABLES
    pc,               \* the script's position
    index_choice,     \* sidebar: "S&P 500" or "CSI 300"
    start_date,       \* sidebar: Start Date
    end_date,         \* sidebar: End Date
    source,           \* the table the chosen loader reads (web page or spreadsheet)
    market,           \* the provider's daily bars per ticker
    calls,            \* loads and downloads performed
    rendered,         \* what the page shows, in order
    metadata,
    tickers,
    data,             \* what yf.download returned
    price_data,
    performance,      \* perf and avg_volume, per ticker
    latest_date,
    top_gainers,
    top_losers,
    sector_perf,
    industry_perf,
    selected_ticker,
    inspector

vars == <<pc, index_choice, start_date, end_date, source, market, calls, rendered,
          metadata, tickers, data, price_data, performance, latest_date, top_gainers,
          top_losers, sector_perf, industry_perf, selected_ticker, inspector>>

inputs == <<index_choice, start_date, end_date, source, market>>
loaded == <<metadata, tickers>>
fetched == <<data, price_data>>
computed == <<performance, latest_date>>
tab1 == <<top_gainers, top_losers>>
tab2 == <<sector_perf, industry_perf>>
tab3 == <<selected_ticker, inspector>>

\* The state when the script reaches line 111, the sidebar drawn.
Start(choice, start, end, src, mkt) ==
    /\ index_choice = choice
    /\ start_date = start
    /\ end_date = end
    /\ source = src
    /\ market = mkt
    /\ pc = "check_dates"
    /\ calls = {}
    /\ rendered = <<"sidebar">>
    /\ metadata = <<>>
    /\ tickers = <<>>
    /\ data = <<>>
    /\ price_data = <<>>
    /\ performance = <<>>
    /\ latest_date = None
    /\ top_gainers = <<>>
    /\ top_losers = <<>>
    /\ sector_perf = <<>>
    /\ industry_perf = <<>>
    /\ selected_ticker = None
    /\ inspector = None

\* ---------------------------------------------------------------- script

\* A date check that lets a start one day after the end through, to try C1
\* against.
StartAfterEndLax(start, end) == start > end + 1

\* if start_date > end_date
StartAfterEnd(start, end) == start > end

\* Lines 111-113: st.error, st.stop.
DatesRejected ==
    /\ pc = "check_dates"
    /\ StartAfterEnd(start_date, end_date)
    /\ rendered' = Append(rendered, "error: Start date must be before end date.")
    /\ pc' = "stopped"
    /\ UNCHANGED <<inputs, calls, loaded, fetched, computed, tab1, tab2, tab3>>

\* Lines 116-117.
LoadMetadata ==
    /\ pc = "check_dates"
    /\ ~StartAfterEnd(start_date, end_date)
    /\ calls' = calls \cup {IF index_choice = "S&P 500" THEN "read_html" ELSE "read_excel"}
    /\ metadata' = LoadedMetadata(index_choice, source)
    /\ tickers' = TickerList(metadata')
    /\ pc' = "download"
    /\ UNCHANGED <<inputs, rendered, fetched, computed, tab1, tab2, tab3>>

\* Lines 119-120: get_price_data(tickers, start_date, end_date).
GetPriceData ==
    /\ pc = "download"
    /\ calls' = calls \cup {"yf.download"}
    /\ data' = Download(market, tickers, StartBuffer(start_date), EndBuffer(end_date))
    /\ price_data' = PriceLoop(data', tickers, start_date, end_date)
    /\ pc' = "check_data"
    /\ UNCHANGED <<inputs, rendered, loaded, computed, tab1, tab2, tab3>>

\* if not price_data
NoPriceData(pd) == pd = <<>>

\* Lines 122-124: st.error, st.stop.
NoDataStop ==
    /\ pc = "check_data"
    /\ NoPriceData(price_data)
    /\ rendered' = Append(rendered, "error: No valid data returned.")
    /\ pc' = "stopped"
    /\ UNCHANGED <<inputs, calls, loaded, fetched, computed, tab1, tab2, tab3>>

\* Lines 126-135: compute_performance, latest_date, the title and the tabs.
ComputePerformance ==
    /\ pc = "check_data"
    /\ ~NoPriceData(price_data)
    /\ performance' = compute_performance(price_data)
    /\ latest_date' = LatestDate(price_data)
    /\ rendered' = rendered \o <<"title", "tabs">>
    /\ pc' = "tab1"
    /\ UNCHANGED <<inputs, calls, loaded, fetched, tab1, tab2, tab3>>

\* Lines 137-142.
TopMovers ==
    /\ pc = "tab1"
    /\ top_gainers' \in display_top_movers(performance, metadata, FALSE)
    /\ top_losers' \in display_top_movers(performance, metadata, TRUE)
    /\ rendered' = rendered \o <<"Top 10 Gainers", "Top 10 Losers">>
    /\ pc' = "tab2"
    /\ UNCHANGED <<inputs, calls, loaded, fetched, computed, tab2, tab3>>

\* Lines 144-147.
GroupPerformance ==
    /\ pc = "tab2"
    /\ sector_perf' \in display_group_performance(performance, metadata, "Sector")
    /\ industry_perf' \in display_group_performance(performance, metadata, "SubInd")
    /\ rendered' = rendered \o <<"Sector Performance", "Industry Group Performance">>
    /\ pc' = "tab3"
    /\ UNCHANGED <<inputs, calls, loaded, fetched, computed, tab1, tab3>>

\* Lines 149-160: the selectbox offers "None" and the keys of price_data.
TickerInspector ==
    /\ pc = "tab3"
    /\ \E choice \in {None} \cup {Some(price_data[i].ticker) : i \in 1..Len(price_data)} :
          /\ selected_ticker' = choice
          /\ IF choice = None
             THEN /\ inspector' = None
                  /\ rendered' = rendered
             ELSE LET i == CHOOSE j \in 1..Len(price_data) :
                               price_data[j].ticker = Val(choice)
                  IN  /\ inspector' = Some(Inspect(price_data[i].df))
                      /\ rendered' = rendered \o <<"line_chart", "Total Movement">>
    /\ pc' = "footer"
    /\ UNCHANGED <<inputs, calls, loaded, fetched, computed, tab1, tab2>>

\* Lines 163-171: strftime raises on NaT and the caption falls back.
Footer ==
    /\ pc = "footer"
    /\ rendered' = Append(rendered,
                          IF LatestDate(price_data) = None THEN "Last updated: Unknown"
                          ELSE "Last updated: date")
    /\ pc' = "done"
    /\ UNCHANGED <<inputs, calls, loaded, fetched, computed, tab1, tab2, tab3>>

Next ==
    \/ DatesRejected
    \/ LoadMetadata
    \/ GetPriceData
    \/ NoDataStop
    \/ ComputePerformance
    \/ TopMovers
    \/ GroupPerformance
    \/ TickerInspector
    \/ Footer

\* ---------------------------------------------------------------- inputs

\* A day's bar: all NaN, or a close and a volume.
Cells(prices, volumes) ==
    {[Close |-> None, Volume |-> None]}
    \cup {[Close |-> Some(p), Volume |-> Some(v)] : p \in prices, v \in volumes}

\* The histories with at most maxRows bars on the given days.
Histories(days, maxRows, prices, volumes) ==
    UNION {{[i \in 1..Cardinality(D) |->
                [date |-> Ascending(D)[i], Close |-> f[Ascending(D)[i]].Close,
                 Volume |-> f[Ascending(D)[i]].Volume]] :
            f \in [D -> Cells(prices, volumes)]} :
           D \in {E \in SUBSET days : Cardinality(E) <= maxRows}}

\* What the provider has for one ticker: no column at all, or a history.
Provided(histories) ==
    {[ok |-> FALSE, rows |-> <<>>]} \cup {[ok |-> TRUE, rows |-> h] : h \in histories}

\* Sequences over S of length at most n.
SeqUpTo(S, n) == UNION {[1..k -> S] : k \in 0..n}

A == <<"A">>
B == <<"B">>

\* One ticker, every short history: the days from one before the first
\* selectable day on, and a few bars over the days that reach back past the
\* download padding.
SeriesHistories ==
    Histories(0..MaxDay, MaxDay + 1, 1..MaxPrice, {100})
    \cup Histories((0 - PadBefore)..1, MaxSparseRows, 1..MaxPrice, {100})

InitSeries ==
    \E start \in 1..MaxDay, end \in 1..MaxDay, p \in Provided(SeriesHistories) :
        Start("S&P 500", start, end,
              <<[Symbol |-> Some(A), Sector |-> "X", SubInd |-> "X1"]>>,
              [t \in {A} |-> p])

SpecSeries == InitSeries /\ [][Next]_vars

\* ---------------------------------------------------------------- claims

Selectable == {price_data[i].ticker : i \in 1..Len(price_data)}
FrameOf(t) == price_data[CHOOSE i \in 1..Len(price_data) : price_data[i].ticker = t].df
ReturnOf(t) == performance[CHOOSE i \in 1..Len(performance) : performance[i].Ticker = t].Return

\* C1: whenever the selected start date is after the end date, the run makes
\* no load and no download, renders nothing after the sidebar but the
\* "Start date must be before end date" error, and ends there.
C1_RejectedBeforeAnyAccess ==
    start_date > end_date =>
        /\ calls = {}
        /\ pc \in {"check_dates", "stopped"}
        /\ pc = "check_dates" => rendered = <<"sidebar">>
        /\ pc = "stopped" =>
              /\ rendered = <<"sidebar", "error: Start date must be before end date.">>
              /\ ~ENABLED Next

C1_Witness ==
    /\ start_date > end_date
    /\ pc = "stopped"
    /\ market[A].ok /\ market[A].rows # <<>>

\* The bars of a downloaded series that carry a close: its trading days.
TradingDays(rows) == SelectSeq(rows, LAMBDA r : r.Close # None)

\* 100 * (c_i / c_(i-1) - 1)
DayOverDay(bars, i) ==
    Frac(100 * (Val(bars[i].Close) - Val(bars[i - 1].Close)), Val(bars[i - 1].Close))

\* The trading days inside the selected window that have a previous trading day.
WindowDays(bars) ==
    {i \in 2..Len(bars) : start_date <= bars[i].date /\ bars[i].date <= end_date}

SumOfChanges(bars) ==
    LET idx == Ascending(WindowDays(bars))
    IN  RSum([k \in 1..Len(idx) |-> DayOverDay(bars, idx[k])])

NonZeroChanges(bars) == {i \in WindowDays(bars) : DayOverDay(bars, i) # Zero}

Least(S) == CHOOSE x \in S : \A y \in S : x <= y
Greatest(S) == CHOOSE x \in S : \A y \in S : y <= x

\* 100 * (last_close / first_close - 1), the first close being the one the
\* first change of the window is measured from ...
CompoundedFromBase(bars) ==
    LET W == WindowDays(bars)
    IN  Frac(100 * (Val(bars[Greatest(W)].Close) - Val(bars[Least(W) - 1].Close)),
             Val(bars[Least(W) - 1].Close))

\* ... or the close of the first row of the window.
CompoundedInWindow(bars) ==
    LET W == WindowDays(bars)
    IN  Frac(100 * (Val(bars[Greatest(W)].Close) - Val(bars[Least(W)].Close)),
             Val(bars[Least(W)].Close))

\* C4 as amended: for every ticker whose downloaded series has at least two
\* trading days, the performance is the sum of the day-over-day percentage
\* changes of Close over the trading days inside [start_date, end_date], and
\* it differs from the compounded return (from either first close) whenever
\* the window holds exactly two non-zero changes.
C4_SumOfDailyChanges ==
    \A k \in 1..Len(performance) :
        LET bars == TradingDays(data[performance[k].Ticker].rows)
        IN  Len(bars) >= 2 =>
                /\ performance[k].Return = SumOfChanges(bars)
                /\ Cardinality(NonZeroChanges(bars)) = 2 =>
                      /\ performance[k].Return # CompoundedFromBase(bars)
                      /\ performance[k].Return # CompoundedInWindow(bars)

C4_Witness ==
    /\ performance # <<>>
    /\ LET rows == data[performance[1].Ticker].rows
           bars == TradingDays(rows)
       IN  /\ Len(bars) >= 3
           /\ Len(rows) > Len(bars)
           /\ Cardinality(NonZeroChanges(bars)) = 2
           /\ performance[1].Return # Zero

\* C4 as claimed: the sum differs from the compounded return whenever the
\* window holds two or more non-zero changes.
C4_AlwaysDiffers ==
    \A k \in 1..Len(performance) :
        LET bars == TradingDays(data[performance[k].Ticker].rows)
        IN  Len(bars) >= 2 =>
                /\ performance[k].Return = SumOfChanges(bars)
                /\ Cardinality(NonZeroChanges(bars)) >= 2 =>
                      /\ performance[k].Return # CompoundedFromBase(bars)
                      /\ performance[k].Return # CompoundedInWindow(bars)

\* C8: every row of every returned series is dated inside
\* [start_date, end_date], and a bar of the provider with a close, dated
\* inside the window, is returned whenever the provider has a bar with a close
\* within the 5 days before start_date.
C8_WindowTrimmedAndFirstDayKept ==
    /\ \A k \in 1..Len(price_data) : \A i \in 1..Len(price_data[k].df) :
          /\ start_date <= price_data[k].df[i].date
          /\ price_data[k].df[i].date <= end_date
    /\ "yf.download" \in calls =>
          \A k \in 1..Len(tickers) :
              LET t == tickers[k]
                  bars == TradingDays(market[t].rows)
                  Padded(i) == /\ start_date - 5 <= bars[i].date
                               /\ bars[i].date < start_date
              IN  market[t].ok =>
                      \A i \in 1..Len(bars) :
                          (/\ start_date <= bars[i].date
                           /\ bars[i].date <= end_date
                           /\ \E j \in 1..Len(bars) : Padded(j))
                          => /\ t \in Selectable
                             /\ \E r \in 1..Len(FrameOf(t)) :
                                   /\ FrameOf(t)[r].date = bars[i].date
                                   /\ FrameOf(t)[r].Close = Val(bars[i].Close)
                                   /\ FrameOf(t)[r].Chg = DayOverDay(bars, i)

\* The first in-window day is kept thanks to a bar 5 days before start_date,
\* next to an earlier bar the download leaves out.
C8_Witness ==
    /\ "yf.download" \in calls
    /\ LET bars == TradingDays(market[A].rows)
       IN  /\ Len(bars) = 2
           /\ bars[1].date = start_date - 5
           /\ bars[2].date = start_date
           /\ A \in Selectable
           /\ Len(FrameOf(A)) = 1
           /\ FrameOf(A)[1].date = start_date

\* C9: the Total Movement of the inspected ticker is its Return, both taken
\* to the two decimals they are shown with ('{:.2f}%'), and is the last value
\* of the charted Cumulative % Change (of a series with a row).
C9_TotalMovementIsReturn ==
    inspector # None =>
        LET shown == Val(inspector)
        IN  /\ Round(shown.total_return, Decimals)
                  = Round(ReturnOf(Val(selected_ticker)), Decimals)
            /\ shown.Cumulative # <<>> =>
                  shown.total_return = shown.Cumulative[Len(shown.Cumulative)]

\* C2: a ticker whose fetch failed, or whose downloaded series has no trading
\* day with a change inside the window, has no entry in price_data, none in
\* the performance and avg_volume maps, no row in the Top 10 tables and is
\* not offered by the Ticker Inspector.
C2_EmptyTickerDropped ==
    "yf.download" \in calls =>
        \A k \in 1..Len(tickers) :
            LET t == tickers[k]
            IN  (~data[t].ok \/ WindowDays(TradingDays(data[t].rows)) = {}) =>
                    /\ t \notin Selectable
                    /\ \A i \in 1..Len(performance) : performance[i].Ticker # t
                    /\ \A i \in 1..Len(top_gainers) : top_gainers[i].Ticker # t
                    /\ \A i \in 1..Len(top_losers) : top_losers[i].Ticker # t
                    /\ selected_ticker # Some(t)

\* Some ticker has a row with a change inside the window.
SomeValidRow ==
    \E k \in 1..Len(tickers) :
        /\ data[tickers[k]].ok
        /\ WindowDays(TradingDays(data[tickers[k]].rows)) # {}

\* C3: when no ticker has a valid row in the window the run ends with the
\* "No valid data returned" error and computes and renders nothing more;
\* whenever the run is past that check, some ticker has a valid row.
C3_NoDataHalts ==
    "yf.download" \in calls =>
        /\ ~SomeValidRow =>
              /\ pc \in {"check_data", "stopped"}
              /\ performance = <<>>
              /\ pc = "stopped" =>
                    rendered = <<"sidebar", "error: No valid data returned.">>
        /\ pc \in {"tab1", "tab2", "tab3", "footer", "done"} => SomeValidRow

\* Every ticker carried in price_data has a row in the window.
EveryFrameHasRows == \A k \in 1..Len(price_data) : price_data[k].df # <<>>

\* The rows of df in the order of Return, rows of equal Return in the order
\* they have in df: the stable ranking.
StableRanking(df, ascending) ==
    LET n == Len(df)
        Before(i, j) ==
            \/ IF ascending THEN RLess(df[i].Return, df[j].Return)
               ELSE RLess(df[j].Return, df[i].Return)
            \/ df[i].Return = df[j].Return /\ i < j
        p == CHOOSE q \in Permutations(1..n) :
                 \A a \in 1..n, b \in 1..n : a < b => Before(q[a], q[b])
    IN  [i \in 1..n |-> df[p[i]]]

\* The frame display_top_movers ranks: Ticker, Return, Avg Volume per merged row.
RankedFrame ==
    LET merged == Merge(performance, metadata)
    IN  [i \in 1..Len(merged) |->
            [Ticker |-> merged[i].Ticker, Return |-> merged[i].Return,
             AvgVolume |-> merged[i].AvgVolume]]

\* C5: the Top 10 Gainers are the first min(10, n) rows of the stable ranking
\* by Return, highest first, the Top 10 Losers those of the stable ranking
\* lowest first: rows of equal Return keep their input order. (Stated for the
\* runs in which every ticker has a row in the window.)
C5_StableTopTen ==
    (pc \in {"tab2", "tab3", "footer", "done"} /\ EveryFrameHasRows) =>
        /\ top_gainers = Head_n(StableRanking(RankedFrame, FALSE), 10)
        /\ top_losers = Head_n(StableRanking(RankedFrame, TRUE), 10)

\* The tickers with a performance that the table puts in group g of column col.
Constituents(col, g) ==
    {performance[k].Ticker : k \in {j \in 1..Len(performance) :
        \E i \in 1..Len(metadata) :
            metadata[i].Symbol = Some(performance[j].Ticker) /\ metadata[i][col] = g}}

\* The mean of the Returns of the tickers of S, each counted once.
UnweightedMean(S) ==
    LET members == AnyOrder(S)
    IN  RDivInt(RSum([i \in 1..Len(members) |-> ReturnOf(members[i])]), Len(members))

GroupTableOk(table, col) ==
    /\ \A i \in 1..Len(table) :
          table[i].AvgReturn = Round(UnweightedMean(Constituents(col, table[i].Group)), 2)
    /\ \A i \in 1..(Len(table) - 1) : RLeq(table[i + 1].AvgReturn, table[i].AvgReturn)

\* C6: each group's average return is the unweighted mean (to the two
\* decimals shown) of the performances of the group's constituents, each
\* counted once, and the groups are listed by non-increasing average. (Stated
\* for the runs in which every ticker has a row in the window.)
C6_GroupAverageUnweighted ==
    (pc \in {"tab3", "footer", "done"} /\ EveryFrameHasRows) =>
        /\ GroupTableOk(sector_perf, "Sector")
        /\ GroupTableOk(industry_perf, "SubInd")

NoRepeat(s) == \A i \in 1..Len(s), j \in 1..Len(s) : s[i] = s[j] => i = j

\* C10: each ticker is requested once, has one performance value and is in
\* at most one row of each Top 10 table, whatever the constituent table.
C10_OneRowPerTicker ==
    EveryFrameHasRows =>
    /\ NoRepeat(tickers)
    /\ NoRepeat([i \in 1..Len(performance) |-> performance[i].Ticker])
    /\ NoRepeat([i \in 1..Len(top_gainers) |-> top_gainers[i].Ticker])
    /\ NoRepeat([i \in 1..Len(top_losers) |-> top_losers[i].Ticker])

\* What the claim makes of a raw ticker: its first six characters when they
\* are six digits led by 6, 0 or 3, with the market suffix; nothing otherwise.
Normalized(raw) ==
    LET text == strip(str(raw))
        six == SubSeq(text, 1, 6)
    IN  IF Len(text) >= 6 /\ (\A i \in 1..6 : text[i] \in Digits)
           /\ text[1] \in {"6", "0", "3"}
        THEN Some(six \o (IF text[1] = "6" THEN <<".", "S", "S">> ELSE <<".", "S", "Z">>))
        ELSE None

\* C7: load_csi300_metadata returns, in order, exactly the rows whose raw
\* ticker normalizes, each with the normalized Symbol, and only they reach
\* the ticker list.
C7_SixDigitsAndSuffix ==
    (index_choice = "CSI 300" /\ "read_excel" \in calls) =>
        LET expected == SelectSeq([i \in 1..Len(source) |-> Normalized(source[i].Ticker)],
                                  LAMBDA o : o # None)
        IN  /\ [i \in 1..Len(metadata) |-> metadata[i].Symbol] = expected
            /\ \A k \in 1..Len(tickers) : \E i \in 1..Len(expected) : expected[i] = Some(tickers[k])

\* -------------------------------------------------------- other input sets

\* The whole pipeline on a small index: up to MaxMetaRows constituent rows over
\* two symbols (a symbol may repeat) and three sub-industries in two sectors.
\* The download is one frame over days 0 and 1: a ticker has no column in it,
\* or on each day a bar or a NaN row.
PipelineRows ==
    {[Symbol |-> Some(A), Sector |-> g[1], SubInd |-> g[2]] :
        g \in {<<"X", "X1">>, <<"Y", "Y1">>}}
    \cup {[Symbol |-> Some(B), Sector |-> g[1], SubInd |-> g[2]] :
            g \in {<<"X", "X1">>, <<"X", "X2">>}}

PipelineTables == SeqUpTo(PipelineRows, MaxMetaRows)

PipelineDays == 1..2

PipelineFrames ==
    {[i \in 1..2 |-> [date |-> i - 1, Close |-> f[i].Close, Volume |-> f[i].Volume]] :
        f \in [1..2 -> Cells(1..2, {100})]}

Init ==
    \E start \in PipelineDays, end \in PipelineDays, table \in PipelineTables :
        \E mkt \in [Range(TickerList(get_sp500_metadata(table))) ->
                        Provided(PipelineFrames)] :
            Start("S&P 500", start, end, table, mkt)

Spec == Init /\ [][Next]_vars

\* The CSI 300 spreadsheet with one row, its Ticker cell empty or any text of
\* up to MaxRawLen characters.
RawCells ==
    {None} \cup {Some(s) : s \in SeqUpTo({"6", "0", "3", "2", ".", " "}, MaxRawLen)}

InitCSI ==
    \E start \in PipelineDays, cell \in RawCells :
        LET xlsx == <<[Ticker |-> cell, Sector |-> "X", SubInd |-> "X1"]>>
            bars == <<[date |-> 0, Close |-> Some(1), Volume |-> Some(100)],
                      [date |-> 1, Close |-> Some(2), Volume |-> Some(100)]>>
        IN  Start("CSI 300", start, 1, xlsx,
                  [t \in Range(TickerList(load_csi300_metadata(xlsx))) |->
                      [ok |-> TRUE, rows |-> bars]])

SpecCSI == InitCSI /\ [][Next]_vars

====
